---- MODULE Spec2Model ----
(***************************************************************************)
(* confect-plus: the function compiler (confectQueryFunction,              *)
(* confectMutationFunction, confectActionFunction), the capability         *)
(* context factory (makeConfect*Ctx) and the generic builder combinators   *)
(* (withRequiredArgs, withCurrentUser) of src/server/ctx.ts.               *)
(*                                                                         *)
(* One invocation of a compiled descriptor is the pipeline                 *)
(*   pipe(actualArgs, Schema.decode(args), Effect.orDie,                   *)
(*        Effect.andThen(handler(..).pipe(provideService(Tag, makeCtx))),  *)
(*        Effect.andThen(Schema.encodeUnknown(returns)), Effect.runPromise)*)
(* and is modelled step by step, one action per stage.                     *)
(***************************************************************************)
EXTENDS Integers, Sequences, FiniteSets, TLC

\* Number of invocations the platform makes (each with its own raw context).
MaxInvocations == 1

\* Number of invocations in flight at once in the concurrent specification.
MaxConcurrent == 2

\* Number of cross-invocation calls one handler's effect issues.
MaxCalls == 2

Invs == 1..MaxInvocations

VARIABLES
    pc,           \* [Invs -> stage of the pipeline]
    desc,         \* [Invs -> the descriptor invoked]
    rawCtx,       \* [Invs -> the raw platform context handed in]
    actualArgs,   \* [Invs -> the raw arguments handed in]
    decodedArgs,  \* [Invs -> result of Schema.decode(args), once it succeeded]
    bundle,       \* [Invs -> the capability bundle provided to the handler]
    requiredArgsValue, \* [Invs -> exit of provideArgs() (withRequiredArgs)]
    userIdentity, \* [Invs -> what ctx.auth.getUserIdentity() returned (withCurrentUser)]
    handlerArgs,  \* [Invs -> sequence of the inputs the user handler was called with]
    handlerExit,  \* [Invs -> exit of the effect given to the compiler as handler]
    trace,        \* [Invs -> sequence of the pipeline stages executed]
    promise,      \* [Invs -> the promise returned by the descriptor's handler]
    context,      \* [Invs -> the Context the handler's effect runs in: tag key and service]
    call,         \* [Invs -> the cross-invocation call the handler's effect last drove]
    driven,       \* [Invs -> number of capability effects the handler's effect has driven]
    platformOps,  \* [Invs -> number of operations invoked on the raw context of that id]
    registry      \* the module: descriptors built at load time, their compiled validators

callVars == <<call, driven, platformOps>>

vars == <<pc, desc, rawCtx, actualArgs, decodedArgs, bundle, requiredArgsValue,
          userIdentity, handlerArgs, handlerExit, trace, promise, context, callVars,
          registry>>

----------------------------------------------------------------------------
(* Values of the wire and of the domain: tagged strings and numbers.       *)

Str(s) == [type |-> "string", value |-> s]

Num(n) == [type |-> "number", value |-> n]

Arr(seq) == [type |-> "array", value |-> seq]

(* Option, as returned by ConfectAuth.getUserIdentity.                      *)
None == [_tag |-> "None"]

Some(v) == [_tag |-> "Some", value |-> v]

NotAsked == [_tag |-> "NotAsked"]

(* Exits of an effect: success, typed failure (Cause.Fail), defect         *)
(* (Cause.Die).                                                            *)
Success(v) == [_tag |-> "Success", value |-> v]

Fail(e) == [_tag |-> "Fail", error |-> e]

Die(d) == [_tag |-> "Die", defect |-> d]

NoExit == [_tag |-> "NoExit"]

(* Error values.                                                           *)
Error(msg) == [_tag |-> "Error", message |-> msg]

ParseError(schema, actual) == [_tag |-> "ParseError", schema |-> schema, actual |-> actual]

----------------------------------------------------------------------------
(* Schemas: a Schema.Struct is a function from field names to field        *)
(* schemas.                                                                *)

(* Type of the value a field schema accepts (Schema.String, Schema.Number  *)
(* have the same encoded and decoded type).                                *)
TypeOf(fieldSchema) ==
    CASE fieldSchema = "String" -> "string"
      [] fieldSchema = "Number" -> "number"
      [] fieldSchema = "Array(String)" -> "array"

(* A field schema accepts a value of its type; Schema.Array(Schema.String) *)
(* an array whose elements are all strings.                                *)
Accepts(fieldSchema, v) ==
    /\ v.type = TypeOf(fieldSchema)
    /\ fieldSchema = "Array(String)" =>
         \A k \in 1..Len(v.value) : v.value[k].type = "string"

(* Schema.extend(self, that) of two structs: the fields of both.  The      *)
(* structs extended here (userArgs with requiredArgs or UserIdArgs) have   *)
(* no field in common.                                                     *)
SchemaExtend(self, that) ==
    [f \in (DOMAIN self) \cup (DOMAIN that) |->
        IF f \in DOMAIN that THEN that[f] ELSE self[f]]

(* A struct parses an input when every declared field is present with a    *)
(* value of the field's type; fields that are not declared are dropped     *)
(* from the output.                                                        *)
Parses(schema, input) ==
    \A f \in DOMAIN schema :
        /\ f \in DOMAIN input
        /\ Accepts(schema[f], input[f])

ParseStruct(schema, input) ==
    IF Parses(schema, input)
    THEN Success([f \in DOMAIN schema |-> input[f]])
    ELSE Fail(ParseError(schema, input))

SchemaDecode(schema, input) == ParseStruct(schema, input)

SchemaEncodeUnknown(schema, value) == ParseStruct(schema, value)

(* Effect.orDie left out of the pipeline.                                  *)
OrDie_Missing(exit) == exit

(* Effect.orDie: a typed failure becomes a defect.                         *)
OrDie(exit) ==
    IF exit._tag = "Fail" THEN Die(exit.error) ELSE exit

(* Effect.runPromise: success resolves the promise, any failure rejects it *)
(* with a FiberFailure that carries the cause.                             *)
NoPromise == [status |-> "none"]

Pending == [status |-> "pending"]

FiberFailure(cause) == [_tag |-> "FiberFailure", cause |-> cause]

(* A runPromise that rejects with a generic error, dropping the cause.     *)
RunPromise_Generic(exit) ==
    IF exit._tag = "Success"
    THEN [status |-> "resolved", value |-> exit.value]
    ELSE [status |-> "rejected",
          error |-> FiberFailure(Die(Error("An unknown error occurred")))]

RunPromise(exit) ==
    IF exit._tag = "Success"
    THEN [status |-> "resolved", value |-> exit.value]
    ELSE [status |-> "rejected", error |-> FiberFailure(exit)]

----------------------------------------------------------------------------
(* Capability context factory.  The raw platform context of an invocation  *)
(* is [id, identity]; every service of a bundle keeps the raw context it   *)
(* was built from.                                                         *)

(* databaseSchemasFromConfectSchema(confectSchemaDefinition.confectSchema) *)
DatabaseSchemas == [notes |-> [text |-> "String"]]

(* The entity schema set of each data model.                               *)
DatabaseSchemasOf(dataModel) ==
    IF dataModel = "A" THEN DatabaseSchemas ELSE [tasks |-> [title |-> "String"]]

(* The operation called while the bundle is built: ctx.op(..) instead of   *)
(* Effect.promise(() => ctx.op(..)).                                       *)
EffectPromise_Eager(ctx, op) == [impl |-> "Promise", ctx |-> ctx.id, op |-> op]

EffectPromise(ctx, op) == [impl |-> "Effect.promise", ctx |-> ctx.id, op |-> op]

(* A query bundle built with the writer and the scheduler.                 *)
makeConfectQueryCtx_Writer(ctx, databaseSchemas) ==
    [db        |-> [impl |-> "ConfectDatabaseWriterImpl", ctx |-> ctx.id,
                    databaseSchemas |-> databaseSchemas],
     auth      |-> [impl |-> "ConfectAuthImpl", ctx |-> ctx.id],
     storage   |-> [impl |-> "ConfectStorageReaderImpl", ctx |-> ctx.id],
     scheduler |-> [impl |-> "ConfectSchedulerImpl", ctx |-> ctx.id],
     runQuery  |-> EffectPromise(ctx, "runQuery")]

makeConfectQueryCtx(ctx, databaseSchemas) ==
    [db       |-> [impl |-> "ConfectDatabaseReaderImpl", ctx |-> ctx.id,
                   databaseSchemas |-> databaseSchemas],
     auth     |-> [impl |-> "ConfectAuthImpl", ctx |-> ctx.id],
     storage  |-> [impl |-> "ConfectStorageReaderImpl", ctx |-> ctx.id],
     runQuery |-> EffectPromise(ctx, "runQuery")]

(* A mutation bundle that also exposes runAction.                          *)
makeConfectMutationCtx_RunAction(ctx, databaseSchemas) ==
    [db          |-> [impl |-> "ConfectDatabaseWriterImpl", ctx |-> ctx.id,
                      databaseSchemas |-> databaseSchemas],
     auth        |-> [impl |-> "ConfectAuthImpl", ctx |-> ctx.id],
     storage     |-> [impl |-> "ConfectStorageWriterImpl", ctx |-> ctx.id],
     scheduler   |-> [impl |-> "ConfectSchedulerImpl", ctx |-> ctx.id],
     runQuery    |-> EffectPromise(ctx, "runQuery"),
     runMutation |-> EffectPromise(ctx, "runMutation"),
     runAction   |-> EffectPromise(ctx, "runAction")]

makeConfectMutationCtx(ctx, databaseSchemas) ==
    [db          |-> [impl |-> "ConfectDatabaseWriterImpl", ctx |-> ctx.id,
                      databaseSchemas |-> databaseSchemas],
     auth        |-> [impl |-> "ConfectAuthImpl", ctx |-> ctx.id],
     storage     |-> [impl |-> "ConfectStorageWriterImpl", ctx |-> ctx.id],
     scheduler   |-> [impl |-> "ConfectSchedulerImpl", ctx |-> ctx.id],
     runQuery    |-> EffectPromise(ctx, "runQuery"),
     runMutation |-> EffectPromise(ctx, "runMutation")]

(* An action bundle that also holds a database writer built from the       *)
(* entity schema set.                                                      *)
makeConfectActionCtx_Db(ctx) ==
    [db           |-> [impl |-> "ConfectDatabaseWriterImpl", ctx |-> ctx.id,
                       databaseSchemas |-> DatabaseSchemas],
     runQuery     |-> EffectPromise(ctx, "runQuery"),
     runMutation  |-> EffectPromise(ctx, "runMutation"),
     runAction    |-> EffectPromise(ctx, "runAction"),
     vectorSearch |-> EffectPromise(ctx, "vectorSearch"),
     auth         |-> [impl |-> "ConfectAuthImpl", ctx |-> ctx.id],
     storage      |-> [impl |-> "ConfectStorageWriterImpl", ctx |-> ctx.id],
     scheduler    |-> [impl |-> "ConfectSchedulerImpl", ctx |-> ctx.id]]

makeConfectActionCtx(ctx) ==
    [runQuery     |-> EffectPromise(ctx, "runQuery"),
     runMutation  |-> EffectPromise(ctx, "runMutation"),
     runAction    |-> EffectPromise(ctx, "runAction"),
     vectorSearch |-> EffectPromise(ctx, "vectorSearch"),
     auth         |-> [impl |-> "ConfectAuthImpl", ctx |-> ctx.id],
     storage      |-> [impl |-> "ConfectStorageWriterImpl", ctx |-> ctx.id],
     scheduler    |-> [impl |-> "ConfectSchedulerImpl", ctx |-> ctx.id]]

NoBundle == [_tag |-> "NoBundle"]

(* The services of a bundle that are already a platform operation in       *)
(* flight when the bundle is returned.  Effect.promise(() => ctx.op(..))   *)
(* keeps the call in a thunk, so a bundle of the factory has none.         *)
StartedOnBuild(b) == {s \in DOMAIN b : b[s].impl = "Promise"}

(* The deferred cross-invocation operations a bundle offers.               *)
CallableOps(b) == {s \in DOMAIN b : "op" \in DOMAIN b[s]}

(* The data models functions are declared over, each through its own       *)
(* makeGenericFunctions(confectSchemaDefinition).                          *)
DataModels == {"A", "B"}

Kinds == {"query", "mutation", "action"}

(* One key for the bundles of every kind.                                  *)
Tag_OneKey(kind, dataModel) == "confect-plus/ConfectCtx"

(* Confect<Kind>Ctx<ConfectDataModel>(): Context.GenericTag(key).  The     *)
(* data model is a type parameter and is erased; the key is the string     *)
(* literal of the kind.                                                    *)
Tag(kind, dataModel) ==
    CASE kind = "query"    -> "confect-plus/ConfectQueryCtx"
      [] kind = "mutation" -> "confect-plus/ConfectMutationCtx"
      [] kind = "action"   -> "confect-plus/ConfectActionCtx"

(* Context of an effect: the key a service was provided under, and the     *)
(* service.                                                                *)
EmptyContext == [key |-> "none", service |-> NoBundle]

ContextAdd(key, service) == [key |-> key, service |-> service]

(* yield* tag: the service the context holds under the tag's key.          *)
ContextGet(ctxt, key) == IF ctxt.key = key THEN ctxt.service ELSE NoBundle

(* One bundle, built from the raw context of the first invocation and     *)
(* given to every invocation.                                              *)
ProvidedBundle_Shared(kind, ctx, databaseSchemas) ==
    CASE kind = "query"    -> makeConfectQueryCtx([id |-> 1], databaseSchemas)
      [] kind = "mutation" -> makeConfectMutationCtx([id |-> 1], databaseSchemas)
      [] kind = "action"   -> makeConfectActionCtx([id |-> 1])

(* The bundle the compiled function of each kind provides:                 *)
(* Effect.provideService(Confect<Kind>Ctx(), makeConfect<Kind>Ctx(..)).    *)
ProvidedBundle(kind, ctx, databaseSchemas) ==
    CASE kind = "query"    -> makeConfectQueryCtx(ctx, databaseSchemas)
      [] kind = "mutation" -> makeConfectMutationCtx(ctx, databaseSchemas)
      [] kind = "action"   -> makeConfectActionCtx(ctx)

----------------------------------------------------------------------------
(* The functions declared through makeGenericFunctions.                    *)

(* currentUserId: Schema.String, the struct merged in by withCurrentUser.  *)
UserIdArgs == [currentUserId |-> "String"]

(* The requiredArgs schema given to withRequiredArgs.                      *)
RequiredArgs == [y |-> "Number"]

(* The exits of the provideArgs effect given to withRequiredArgs.          *)
ProvideArgsExits == {Success([y |-> Num(2)]), Fail(Error("provideArgs failed"))}

Returns == [result |-> "String"]

(* EchoArgs, EchoReturns and the handler of the echo query.                *)
EchoArgs == [message |-> "String", count |-> "Number"]

EchoReturns == [response |-> "String", timestamp |-> "Number", repeated |-> "Array(String)"]

Echo(args, now) ==
    [response  |-> Str("Echo: " \o args.message.value),
     timestamp |-> now,
     repeated  |-> Arr([k \in 1..args.count.value |-> args.message])]

(* Date.now()                                                              *)
Now == Num(1700)

Functions ==
    {"query", "mutation", "action", "echo", "queryB",
     "requiredQuery", "requiredMutation",
     "currentUserQuery", "currentUserMutation"}

(* builder: buildQuery/buildMutation/buildAction directly, or through      *)
(* withRequiredArgs(..) / withCurrentUser().                               *)
FunctionDef(fn) ==
    CASE fn = "query" ->
           [dataModel |-> "A", kind |-> "query", builder |-> "build", userArgs |-> [x |-> "Number"]]
      [] fn = "mutation" ->
           [dataModel |-> "A", kind |-> "mutation", builder |-> "build", userArgs |-> [text |-> "String"]]
      [] fn = "action" ->
           [dataModel |-> "A", kind |-> "action", builder |-> "build", userArgs |-> [x |-> "Number"]]
      [] fn = "echo" ->
           [dataModel |-> "A", kind |-> "query", builder |-> "build", userArgs |-> EchoArgs]
      [] fn = "queryB" ->
           [dataModel |-> "B", kind |-> "query", builder |-> "build", userArgs |-> [x |-> "Number"]]
      [] fn = "requiredQuery" ->
           [dataModel |-> "A", kind |-> "query", builder |-> "withRequiredArgs", userArgs |-> [x |-> "Number"]]
      [] fn = "requiredMutation" ->
           [dataModel |-> "A", kind |-> "mutation", builder |-> "withRequiredArgs", userArgs |-> [x |-> "Number"]]
      [] fn = "currentUserQuery" ->
           [dataModel |-> "A", kind |-> "query", builder |-> "withCurrentUser", userArgs |-> [text |-> "String"]]
      [] fn = "currentUserMutation" ->
           [dataModel |-> "A", kind |-> "mutation", builder |-> "withCurrentUser", userArgs |-> [text |-> "String"]]

Kind(fn) == FunctionDef(fn).kind

(* The data model of the makeGenericFunctions call the function was        *)
(* declared through.                                                       *)
DataModelOf(fn) == FunctionDef(fn).dataModel

Builder(fn) == FunctionDef(fn).builder

UserArgs(fn) == FunctionDef(fn).userArgs

(* The returns schema the function is declared with.                       *)
ReturnsOf(fn) == IF fn = "echo" THEN EchoReturns ELSE Returns

(* The args schema the descriptor is compiled with: the user's schema, or  *)
(* mergedArgs = Schema.extend(userArgs, requiredArgs | UserIdArgs).        *)
ArgsSchema(fn) ==
    CASE Builder(fn) = "build"            -> UserArgs(fn)
      [] Builder(fn) = "withRequiredArgs" -> SchemaExtend(UserArgs(fn), RequiredArgs)
      [] Builder(fn) = "withCurrentUser"  -> SchemaExtend(UserArgs(fn), UserIdArgs)

(* compileArgsSchema / compileReturnsSchema: the platform validator of a   *)
(* struct schema, an object validator with one validator per field.        *)
compileArgsSchema(schema) ==
    [validator |-> "object", fields |-> [f \in DOMAIN schema |-> TypeOf(schema[f])]]

compileReturnsSchema(schema) ==
    [validator |-> "object", fields |-> [f \in DOMAIN schema |-> TypeOf(schema[f])]]

(* confectQueryFunction / confectMutationFunction / confectActionFunction: *)
(* the descriptor {args, returns, handler} given to queryGeneric,          *)
(* mutationGeneric or actionGeneric.                                       *)
confectFunction(fn) ==
    [args    |-> compileArgsSchema(ArgsSchema(fn)),
     returns |-> compileReturnsSchema(ReturnsOf(fn)),
     handler |-> fn]

(* A spread in which the fields of the first object win.                   *)
Spread_FirstWins(a, b) ==
    [f \in (DOMAIN a) \cup (DOMAIN b) |-> IF f \in DOMAIN a THEN a[f] ELSE b[f]]

(* Object spread { ...a, ...b }.                                           *)
Spread(a, b) ==
    [f \in (DOMAIN a) \cup (DOMAIN b) |-> IF f \in DOMAIN b THEN b[f] ELSE a[f]]

(* The exits a user handler's effect can have: a value matching the        *)
(* returns schema, a value violating it, a typed failure of its error type *)
(* E (an Error, or the ParseError of a handler that checks its own result  *)
(* against the returns schema, E = ParseError), a defect.                  *)
UserHandlerExits ==
    {Success([result |-> Str("ok")]),
     Success([result |-> Num(1)]),
     Fail(Error("ValidationError")),
     Fail(ParseError(Returns, [result |-> Num(1)])),
     Die(Error("thrown"))}

(* Inputs of an invocation.                                                *)
WireValues == {Num(1), Str("abc")}

RawArgFields(fn) ==
    IF Builder(fn) = "build"
    THEN (DOMAIN UserArgs(fn)) \cup {"extra"}
    ELSE DOMAIN ArgsSchema(fn)

EchoRawArgs ==
    {[message |-> Str("hi"), count |-> Num(2)],
     [message |-> Str("abc"), count |-> Num(1)],
     [message |-> Str("hi"), count |-> Num(0)],
     [message |-> Str("hi"), count |-> Num(2), extra |-> Num(1)],
     [message |-> Num(2), count |-> Num(2)],
     [message |-> Str("hi")]}

RawArgs(fn) ==
    IF fn = "echo"
    THEN EchoRawArgs
    ELSE UNION {[S -> WireValues] : S \in (SUBSET RawArgFields(fn)) \ {{}}}

Identities == {None, Some([subject |-> "42"])}

----------------------------------------------------------------------------
(* State machine.                                                          *)

Idle == [_tag |-> "Idle"]

NoCall == [_tag |-> "NoCall"]

NotLoaded == [_tag |-> "NotLoaded"]

(* The module is not loaded and no invocation of the set S has started.    *)
InitOn(S) ==
    /\ pc = [i \in S |-> "idle"]
    /\ desc = [i \in S |-> "none"]
    /\ rawCtx = [i \in S |-> Idle]
    /\ actualArgs = [i \in S |-> Idle]
    /\ decodedArgs = [i \in S |-> Idle]
    /\ bundle = [i \in S |-> NoBundle]
    /\ requiredArgsValue = [i \in S |-> NoExit]
    /\ userIdentity = [i \in S |-> NotAsked]
    /\ handlerArgs = [i \in S |-> <<>>]
    /\ handlerExit = [i \in S |-> NoExit]
    /\ trace = [i \in S |-> <<>>]
    /\ promise = [i \in S |-> NoPromise]
    /\ context = [i \in S |-> EmptyContext]
    /\ call = [i \in S |-> NoCall]
    /\ driven = [i \in S |-> 0]
    /\ platformOps = [i \in S |-> 0]
    /\ registry = NotLoaded

Init == InitOn(Invs)

(* Module load: makeGenericFunctions(confectSchemaDefinition) computes the *)
(* entity schema set once, and each build* call returns the descriptor     *)
(* {args, returns, handler} with both validators compiled.  No handler is  *)
(* called.                                                                 *)
LoadModule ==
    /\ registry = NotLoaded
    /\ registry' =
         [_tag            |-> "Loaded",
          databaseSchemas |-> [dm \in DataModels |-> DatabaseSchemasOf(dm)],
          tags            |-> [dm \in DataModels |-> [k \in Kinds |-> Tag(k, dm)]],
          descriptors     |-> [fn \in Functions |-> confectFunction(fn)],
          compiles        |-> [fn \in Functions |-> [args |-> 1, returns |-> 1]]]
    /\ UNCHANGED <<pc, desc, rawCtx, actualArgs, decodedArgs, bundle, requiredArgsValue,
                   userIdentity, handlerArgs, handlerExit, trace, promise, context,
                   callVars>>

(* The pipeline ends: Effect.runPromise settles the promise with the exit. *)
Settle(i, exit) ==
    /\ promise' = [promise EXCEPT ![i] = RunPromise(exit)]
    /\ pc' = [pc EXCEPT ![i] = "settled"]

(* The platform calls descriptor.handler(ctx, actualArgs): the promise is  *)
(* returned pending.                                                       *)
(* A handler that compiles the args schema again at every call.           *)
InvokeFrom_Recompiles(i, starts) ==
    /\ registry # NotLoaded
    /\ pc[i] = "idle"
    /\ \E start \in starts :
         /\ desc' = [desc EXCEPT ![i] = registry.descriptors[start.fn].handler]
         /\ rawCtx' = [rawCtx EXCEPT ![i] = [id |-> i, identity |-> start.identity]]
         /\ actualArgs' = [actualArgs EXCEPT ![i] = start.args]
         /\ registry' = [registry EXCEPT !.compiles[start.fn].args = @ + 1]
    /\ promise' = [promise EXCEPT ![i] = Pending]
    /\ pc' = [pc EXCEPT ![i] = "decode"]
    /\ UNCHANGED <<decodedArgs, bundle, requiredArgsValue, userIdentity, handlerArgs,
                   handlerExit, trace>>
    /\ UNCHANGED <<context, callVars>>

InvokeFrom(i, starts) ==
    /\ registry # NotLoaded
    /\ pc[i] = "idle"
    /\ \E start \in starts :
         /\ desc' = [desc EXCEPT ![i] = registry.descriptors[start.fn].handler]
         /\ rawCtx' = [rawCtx EXCEPT ![i] = [id |-> i, identity |-> start.identity]]
         /\ actualArgs' = [actualArgs EXCEPT ![i] = start.args]
    /\ promise' = [promise EXCEPT ![i] = Pending]
    /\ pc' = [pc EXCEPT ![i] = "decode"]
    /\ UNCHANGED <<decodedArgs, bundle, requiredArgsValue, userIdentity, handlerArgs,
                   handlerExit, trace>>
    /\ UNCHANGED <<context, callVars, registry>>

(* Any function, any identity, any raw arguments.                          *)
Starts ==
    UNION {{[fn |-> fn, identity |-> identity, args |-> a] :
               identity \in Identities, a \in RawArgs(fn)} : fn \in Functions}

Invoke(i) == InvokeFrom(i, Starts)

(* pipe(actualArgs, Schema.decode(args), Effect.orDie, ..)                 *)
DecodeArgs(i) ==
    /\ pc[i] = "decode"
    /\ trace' = [trace EXCEPT ![i] = Append(@, "decode")]
    /\ LET exit == OrDie(SchemaDecode(ArgsSchema(desc[i]), actualArgs[i]))
       IN IF exit._tag = "Success"
          THEN /\ decodedArgs' = [decodedArgs EXCEPT ![i] = exit.value]
               /\ pc' = [pc EXCEPT ![i] = "call"]
               /\ UNCHANGED promise
          ELSE /\ Settle(i, exit)
               /\ UNCHANGED decodedArgs
    /\ UNCHANGED <<desc, rawCtx, actualArgs, bundle, requiredArgsValue, userIdentity,
                   handlerArgs, handlerExit>>
    /\ UNCHANGED <<context, callVars, registry>>

(* Effect.andThen((decodedArgs) => handler(decodedArgs).pipe(..)): the     *)
(* function given as handler is called with the decoded arguments.  A      *)
(* handler given to buildQuery/buildMutation/buildAction is the user's;    *)
(* the one withRequiredArgs and withCurrentUser give returns an Effect.gen *)
(* whose body has not started.                                             *)
CallHandler(i) ==
    /\ pc[i] = "call"
    /\ trace' = [trace EXCEPT ![i] = Append(@, "call")]
    /\ handlerArgs' = [handlerArgs EXCEPT ![i] =
           IF Builder(desc[i]) = "build" THEN Append(@, decodedArgs[i]) ELSE @]
    /\ pc' = [pc EXCEPT ![i] = "provide"]
    /\ UNCHANGED <<desc, rawCtx, actualArgs, decodedArgs, bundle, requiredArgsValue,
                   userIdentity, handlerExit, promise>>
    /\ UNCHANGED <<context, callVars, registry>>

(* Effect.provideService(Confect<Kind>Ctx(), makeConfect<Kind>Ctx(ctx, ..)) *)
ProvideService(i) ==
    /\ pc[i] = "provide"
    /\ trace' = [trace EXCEPT ![i] = Append(@, "bundle")]
    /\ LET service == ProvidedBundle(Kind(desc[i]), rawCtx[i],
                                     registry.databaseSchemas[DataModelOf(desc[i])])
       IN /\ bundle' = [bundle EXCEPT ![i] = service]
          /\ context' = [context EXCEPT ![i] =
                 ContextAdd(Tag(Kind(desc[i]), DataModelOf(desc[i])), service)]
          /\ platformOps' = [c \in DOMAIN platformOps |->
                 platformOps[c] +
                 Cardinality({s \in StartedOnBuild(service) : service[s].ctx = c})]
    /\ pc' = [pc EXCEPT ![i] = IF Builder(desc[i]) = "build" THEN "effect" ELSE "inject"]
    /\ UNCHANGED <<desc, rawCtx, actualArgs, decodedArgs, requiredArgsValue, userIdentity,
                   handlerArgs, handlerExit, promise>>
    /\ UNCHANGED <<call, driven, registry>>

(* A pipeline that runs the failed step again.                             *)
HandlerFailed_Retry(i, exit) ==
    /\ handlerExit' = [handlerExit EXCEPT ![i] = exit]
    /\ UNCHANGED <<pc, promise>>

(* The effect of the handler has failed or died: the rest of the pipeline  *)
(* is skipped.                                                             *)
HandlerFailed(i, exit) ==
    /\ handlerExit' = [handlerExit EXCEPT ![i] = exit]
    /\ Settle(i, exit)

(* A wrapper that calls the user handler before it looks at the exit of    *)
(* provideArgs().                                                          *)
ProvideArgs_HandlerFirst(i) ==
    /\ pc[i] = "inject"
    /\ Builder(desc[i]) = "withRequiredArgs"
    /\ trace' = [trace EXCEPT ![i] = Append(@, "provideArgs")]
    /\ handlerArgs' = [handlerArgs EXCEPT ![i] = Append(@, decodedArgs[i])]
    /\ \E exit \in ProvideArgsExits :
         /\ requiredArgsValue' = [requiredArgsValue EXCEPT ![i] = exit]
         /\ IF exit._tag = "Success"
            THEN /\ pc' = [pc EXCEPT ![i] = "effect"]
                 /\ UNCHANGED <<handlerExit, promise>>
            ELSE HandlerFailed(i, exit)
    /\ UNCHANGED <<desc, rawCtx, actualArgs, decodedArgs, bundle, userIdentity>>
    /\ UNCHANGED <<context, callVars, registry>>

(* withRequiredArgs: requiredArgsValue = yield* provideArgs();             *)
(* handler({ ...mergedArgsValue, ...requiredArgsValue })                   *)
ProvideArgs(i) ==
    /\ pc[i] = "inject"
    /\ Builder(desc[i]) = "withRequiredArgs"
    /\ trace' = [trace EXCEPT ![i] = Append(@, "provideArgs")]
    /\ \E exit \in ProvideArgsExits :
         /\ requiredArgsValue' = [requiredArgsValue EXCEPT ![i] = exit]
         /\ IF exit._tag = "Success"
            THEN /\ handlerArgs' = [handlerArgs EXCEPT ![i] =
                        Append(@, Spread(decodedArgs[i], exit.value))]
                 /\ pc' = [pc EXCEPT ![i] = "effect"]
                 /\ UNCHANGED <<handlerExit, promise>>
            ELSE /\ HandlerFailed(i, exit)
                 /\ UNCHANGED handlerArgs
    /\ UNCHANGED <<desc, rawCtx, actualArgs, decodedArgs, bundle, userIdentity>>
    /\ UNCHANGED <<context, callVars, registry>>

(* Effect.die in place of Effect.fail.                                     *)
NotAuthenticated_Defect == Die(Error("User not authenticated"))

(* Effect.fail(new Error("User not authenticated"))                        *)
NotAuthenticated == Fail(Error("User not authenticated"))

(* ConfectAuthImpl(ctx.auth).getUserIdentity() of a bundle: the identity   *)
(* of the raw context the bundle's auth was built from.                    *)
getUserIdentity(b) == rawCtx[b.auth.ctx].identity

(* withCurrentUser: ctx = yield* Confect<Kind>Ctx();                       *)
(* userIdentity = yield* ctx.auth.getUserIdentity(); fail when none, else  *)
(* handler({ ...mergedArgsValue, currentUserId })                          *)
GetUserIdentity(i) ==
    /\ pc[i] = "inject"
    /\ Builder(desc[i]) = "withCurrentUser"
    /\ trace' = [trace EXCEPT ![i] = Append(@, "getUserIdentity")]
    /\ LET identity ==
           getUserIdentity(ContextGet(context[i], Tag(Kind(desc[i]), DataModelOf(desc[i]))))
       IN /\ userIdentity' = [userIdentity EXCEPT ![i] = identity]
          /\ IF identity = None
             THEN /\ HandlerFailed(i, NotAuthenticated)
                  /\ UNCHANGED handlerArgs
             ELSE /\ handlerArgs' = [handlerArgs EXCEPT ![i] =
                         Append(@, Spread(decodedArgs[i],
                                          [currentUserId |-> Str(identity.value.subject)]))]
                  /\ pc' = [pc EXCEPT ![i] = "effect"]
                  /\ UNCHANGED <<handlerExit, promise>>
    /\ UNCHANGED <<desc, rawCtx, actualArgs, decodedArgs, bundle, requiredArgsValue>>
    /\ UNCHANGED <<context, callVars, registry>>

(* The effect returned by the user handler runs to its exit.               *)
UserEffectFrom(i, exits) ==
    /\ pc[i] = "effect"
    /\ trace' = [trace EXCEPT ![i] = Append(@, "effect")]
    /\ \E exit \in exits :
         IF exit._tag = "Success"
         THEN /\ handlerExit' = [handlerExit EXCEPT ![i] = exit]
              /\ pc' = [pc EXCEPT ![i] = "encode"]
              /\ UNCHANGED promise
         ELSE HandlerFailed(i, exit)
    /\ UNCHANGED <<desc, rawCtx, actualArgs, decodedArgs, bundle, requiredArgsValue,
                   userIdentity, handlerArgs>>
    /\ UNCHANGED <<context, callVars, registry>>

(* The exits of the effect of the function's user handler, called with    *)
(* the input args.                                                         *)
HandlerExits(fn, args) ==
    IF fn = "echo" THEN {Success(Echo(args, Now))} ELSE UserHandlerExits

UserEffect(i) == UserEffectFrom(i, HandlerExits(desc[i], handlerArgs[i][1]))

(* The returned value encoded against the args schema.                    *)
EncodeReturns_ArgsSchema(i) ==
    /\ pc[i] = "encode"
    /\ trace' = [trace EXCEPT ![i] = Append(@, "encode")]
    /\ Settle(i, SchemaEncodeUnknown(ArgsSchema(desc[i]), handlerExit[i].value))
    /\ UNCHANGED <<desc, rawCtx, actualArgs, decodedArgs, bundle, requiredArgsValue,
                   userIdentity, handlerArgs, handlerExit>>
    /\ UNCHANGED <<context, callVars, registry>>

(* Effect.andThen((convexReturns) => Schema.encodeUnknown(returns)(..)),   *)
(* Effect.runPromise                                                       *)
EncodeReturns(i) ==
    /\ pc[i] = "encode"
    /\ trace' = [trace EXCEPT ![i] = Append(@, "encode")]
    /\ Settle(i, SchemaEncodeUnknown(ReturnsOf(desc[i]), handlerExit[i].value))
    /\ UNCHANGED <<desc, rawCtx, actualArgs, decodedArgs, bundle, requiredArgsValue,
                   userIdentity, handlerArgs, handlerExit>>
    /\ UNCHANGED <<context, callVars, registry>>

(* What the platform promise of a cross-invocation call settles with: the  *)
(* result of the called function, or a rejection when the called function  *)
(* failed.                                                                 *)
PlatformSettlements ==
    {[status |-> "resolved", value |-> Str("result")],
     [status |-> "rejected", reason |-> Error("Uncaught Error")]}

(* Effect.tryPromise in place of Effect.promise: a rejection becomes a     *)
(* typed failure.                                                          *)
EffectPromiseExit_Try(settlement) ==
    IF settlement.status = "resolved"
    THEN Success(settlement.value)
    ELSE Fail([_tag |-> "UnknownException", error |-> settlement.reason])

(* Effect.promise(() => ctx.op(..)): the effect succeeds with the value    *)
(* the promise resolves to, and dies with the reason it rejects with.      *)
EffectPromiseExit(settlement) ==
    IF settlement.status = "resolved"
    THEN Success(settlement.value)
    ELSE Die(settlement.reason)

(* A handler that goes on without waiting for the promise.                 *)
Suspended_Forget == "effect"

(* yield* of the deferred effect: the handler's fiber is suspended until   *)
(* the platform promise settles.                                           *)
Suspended == "await"

(* The user handler's effect drives a deferred operation of its bundle,    *)
(* yield* ctx.runQuery(..) and the like: the thunk of Effect.promise calls *)
(* the operation on the raw context the service was built from.            *)
CallCapability(i) ==
    /\ pc[i] = "effect"
    /\ driven[i] < MaxCalls
    /\ LET ctx == ContextGet(context[i], Tag(Kind(desc[i]), DataModelOf(desc[i])))
       IN \E op \in CallableOps(ctx) :
            /\ call' = [call EXCEPT ![i] =
                   [_tag        |-> "Call",
                    seq         |-> driven[i] + 1,
                    op          |-> op,
                    ctx         |-> ctx[op].ctx,
                    platformSeq |-> platformOps[ctx[op].ctx] + 1,
                    status      |-> "pending",
                    exit        |-> NoExit]]
            /\ platformOps' = [platformOps EXCEPT ![ctx[op].ctx] = @ + 1]
    /\ driven' = [driven EXCEPT ![i] = @ + 1]
    /\ pc' = [pc EXCEPT ![i] = Suspended]
    /\ UNCHANGED <<desc, rawCtx, actualArgs, decodedArgs, bundle, requiredArgsValue,
                   userIdentity, handlerArgs, handlerExit, trace, promise, context,
                   registry>>

(* The platform promise of the call settles and the deferred effect exits. *)
(* A handler waiting for it goes on with the value; on any other exit it   *)
(* either ends with that exit or handles it (Effect.catchAll,              *)
(* Effect.catchAllDefect) and goes on.                                     *)
PlatformSettles(i) ==
    /\ pc[i] \in {"await", "effect"}
    /\ call[i]._tag = "Call"
    /\ call[i].status = "pending"
    /\ \E settlement \in PlatformSettlements :
         LET exit == EffectPromiseExit(settlement)
         IN /\ call' = [call EXCEPT ![i] =
                   [@ EXCEPT !.status = settlement.status, !.exit = exit]]
            /\ IF pc[i] = "await"
               THEN \/ /\ exit._tag = "Success"
                       /\ pc' = [pc EXCEPT ![i] = "effect"]
                       /\ UNCHANGED <<handlerExit, promise>>
                    \/ /\ exit._tag # "Success"
                       /\ HandlerFailed(i, exit)
                    \/ /\ exit._tag # "Success"
                       /\ pc' = [pc EXCEPT ![i] = "effect"]
                       /\ UNCHANGED <<handlerExit, promise>>
               ELSE UNCHANGED <<pc, handlerExit, promise>>
    /\ UNCHANGED <<desc, rawCtx, actualArgs, decodedArgs, bundle, requiredArgsValue,
                   userIdentity, handlerArgs, trace, context, driven, platformOps,
                   registry>>

(* The promise has settled: the platform drops the invocation, its raw     *)
(* context and its bundle, and may call a descriptor again.                *)
Discard(i) ==
    /\ pc[i] = "settled"
    /\ pc' = [pc EXCEPT ![i] = "idle"]
    /\ desc' = [desc EXCEPT ![i] = "none"]
    /\ rawCtx' = [rawCtx EXCEPT ![i] = Idle]
    /\ actualArgs' = [actualArgs EXCEPT ![i] = Idle]
    /\ decodedArgs' = [decodedArgs EXCEPT ![i] = Idle]
    /\ bundle' = [bundle EXCEPT ![i] = NoBundle]
    /\ requiredArgsValue' = [requiredArgsValue EXCEPT ![i] = NoExit]
    /\ userIdentity' = [userIdentity EXCEPT ![i] = NotAsked]
    /\ handlerArgs' = [handlerArgs EXCEPT ![i] = <<>>]
    /\ handlerExit' = [handlerExit EXCEPT ![i] = NoExit]
    /\ trace' = [trace EXCEPT ![i] = <<>>]
    /\ promise' = [promise EXCEPT ![i] = NoPromise]
    /\ context' = [context EXCEPT ![i] = EmptyContext]
    /\ call' = [call EXCEPT ![i] = NoCall]
    /\ driven' = [driven EXCEPT ![i] = 0]
    /\ platformOps' = [platformOps EXCEPT ![i] = 0]
    /\ UNCHANGED registry

(* The stages of the pipeline of one invocation.                           *)
Pipeline(i) ==
    \/ DecodeArgs(i)
    \/ CallHandler(i)
    \/ ProvideService(i)
    \/ ProvideArgs(i)
    \/ GetUserIdentity(i)
    \/ UserEffect(i)
    \/ EncodeReturns(i)

Next ==
    \/ LoadModule
    \/ \E i \in Invs :
          \/ Invoke(i)
          \/ Pipeline(i)
          \/ Discard(i)

Spec == Init /\ [][Next]_vars

(* Handlers that issue cross-invocation calls.  Every function is invoked  *)
(* by an authenticated client with arguments its schema accepts.           *)
ValidArgs(fn) ==
    [f \in DOMAIN ArgsSchema(fn) |->
        IF TypeOf(ArgsSchema(fn)[f]) = "number" THEN Num(1) ELSE Str("abc")]

CallStarts ==
    {[fn |-> fn, identity |-> Some([subject |-> "42"]), args |-> ValidArgs(fn)] :
        fn \in Functions}

NextCalls ==
    \/ LoadModule
    \/ \E i \in Invs :
          \/ InvokeFrom(i, CallStarts)
          \/ Pipeline(i)
          \/ CallCapability(i)
          \/ PlatformSettles(i)
          \/ Discard(i)

SpecCalls == Init /\ [][NextCalls]_vars

(* Effect.runPromise runs the fiber of the pipeline until it exits, so a   *)
(* stage that can run does run; the platform settles the promise of every  *)
(* operation it was asked for.                                             *)
FairSpecCalls ==
    /\ SpecCalls
    /\ \A i \in Invs : WF_vars(Pipeline(i)) /\ WF_vars(PlatformSettles(i))

(* Concurrent invocations of the query and the mutation descriptor, whose  *)
(* handlers issue cross-invocation calls and succeed.                      *)
ConcurrentInvs == 1..MaxConcurrent

ConcurrentStarts == {start \in CallStarts : start.fn \in {"query", "mutation"}}

InitConcurrent == InitOn(ConcurrentInvs)

NextConcurrent ==
    \/ LoadModule
    \/ \E i \in ConcurrentInvs :
          \/ InvokeFrom(i, ConcurrentStarts)
          \/ DecodeArgs(i)
          \/ CallHandler(i)
          \/ ProvideService(i)
          \/ CallCapability(i)
          \/ PlatformSettles(i)
          \/ UserEffectFrom(i, {Success([result |-> Str("ok")])})
          \/ EncodeReturns(i)
          \/ Discard(i)

SpecConcurrent == InitConcurrent /\ [][NextConcurrent]_vars

(* Concurrent invocations of the withCurrentUser functions by clients of   *)
(* two identities, each sending a currentUserId of its own choice: the     *)
(* subject of either identity, or a value that is not a string.            *)
ClientIdentities == {Some([subject |-> "42"]), Some([subject |-> "7"])}

ClientUserIds == {Str("42"), Str("7"), Num(1)}

ClientStarts ==
    {[fn |-> fn, identity |-> identity,
      args |-> [text |-> Str("abc"), currentUserId |-> id]] :
        fn \in {"currentUserQuery", "currentUserMutation"},
        identity \in ClientIdentities, id \in ClientUserIds}

NextClients ==
    \/ LoadModule
    \/ \E i \in ConcurrentInvs :
          \/ InvokeFrom(i, ClientStarts)
          \/ DecodeArgs(i)
          \/ CallHandler(i)
          \/ ProvideService(i)
          \/ GetUserIdentity(i)
          \/ UserEffectFrom(i, {Success([result |-> Str("ok")])})
          \/ EncodeReturns(i)
          \/ Discard(i)

SpecClients == InitConcurrent /\ [][NextClients]_vars

----------------------------------------------------------------------------
(* Properties.                                                             *)

Range(seq) == {seq[k] : k \in 1..Len(seq)}

Invoked(i) == pc[i] # "idle"

Settled(i) == pc[i] = "settled"

RejectedWith(i, tag) ==
    /\ promise[i].status = "rejected"
    /\ promise[i].error.cause._tag = tag

(* C1: for every kind of invocation, when the raw arguments do not decode  *)
(* against the args schema of the descriptor, the bundle is never built,   *)
(* the handler is never called, and once decode has run the promise is     *)
(* rejected with a defect (Cause.Die), not a typed failure.                *)
C1_DecodeFailureIsDefect ==
    \A i \in Invs :
        (Invoked(i) /\ ~Parses(ArgsSchema(desc[i]), actualArgs[i])) =>
            /\ bundle[i] = NoBundle
            /\ handlerArgs[i] = <<>>
            /\ "call" \notin Range(trace[i])
            /\ "decode" \in Range(trace[i]) =>
                 (Settled(i) /\ RejectedWith(i, "Die"))

C1_Witness ==
    \E i \in Invs :
        /\ Settled(i)
        /\ Kind(desc[i]) = "action"
        /\ ~Parses(ArgsSchema(desc[i]), actualArgs[i])
        /\ RejectedWith(i, "Die")

(* C2: for every kind of invocation, when the handler succeeds with a      *)
(* value that violates the returns schema, the promise is rejected with a  *)
(* defect (Cause.Die) and not with a typed failure.                        *)
C2_EncodeFailureIsDefect ==
    \A i \in Invs :
        (/\ Settled(i)
         /\ handlerExit[i]._tag = "Success"
         /\ ~Parses(ReturnsOf(desc[i]), handlerExit[i].value)) =>
            RejectedWith(i, "Die")

(* The rejections of the codec boundary: raw arguments that do not decode, *)
(* returned values that do not encode.                                     *)
DecodeViolations ==
    UNION {{RunPromise(OrDie(SchemaDecode(ArgsSchema(fn), a))) :
              a \in {r \in RawArgs(fn) : ~Parses(ArgsSchema(fn), r)}} :
           fn \in Functions}

EncodeViolations ==
    {RunPromise(SchemaEncodeUnknown(Returns, e.value)) :
        e \in {x \in UserHandlerExits :
                  x._tag = "Success" /\ ~Parses(Returns, x.value)}}

(* C3: for every kind of invocation, when the handler's effect fails with  *)
(* a typed failure e, the promise is rejected, the rejection carries e as  *)
(* a Cause.Fail, it differs from every rejection a decode or encode        *)
(* violation produces, and the returned value is never encoded.            *)
C3_TypedFailureRejects ==
    \A i \in Invs :
        handlerExit[i]._tag = "Fail" =>
            /\ Settled(i)
            /\ RejectedWith(i, "Fail")
            /\ promise[i].error.cause.error = handlerExit[i].error
            /\ promise[i] \notin (DecodeViolations \cup EncodeViolations)
            /\ "encode" \notin Range(trace[i])

OnlyUserFields(i) ==
    /\ DOMAIN actualArgs[i] = DOMAIN UserArgs(desc[i])
    /\ Parses(UserArgs(desc[i]), actualArgs[i])

DecodedUserFields(i) == SchemaDecode(UserArgs(desc[i]), actualArgs[i]).value

(* C5: withCurrentUser: an invocation whose raw arguments hold only the    *)
(* user-declared fields, with an identity of subject s in the raw context, *)
(* calls the user handler exactly once, with the decoded user fields plus  *)
(* currentUserId = s.                                                      *)
C5_CurrentUserInjected ==
    \A i \in Invs :
        (/\ Settled(i)
         /\ Builder(desc[i]) = "withCurrentUser"
         /\ OnlyUserFields(i)
         /\ rawCtx[i].identity # None) =>
            handlerArgs[i] =
                <<Spread(DecodedUserFields(i),
                         [currentUserId |-> Str(rawCtx[i].identity.value.subject)])>>

(* C6: withRequiredArgs: an invocation whose raw arguments hold only the   *)
(* user-declared fields ({x: 1}), with an injector that succeeds           *)
(* ({y: 2}), calls the user handler with the decoded user fields merged    *)
(* with the injector's fields ({x: 1, y: 2}).                              *)
C6_RequiredArgsInjected ==
    \A i \in Invs :
        (/\ Settled(i)
         /\ Builder(desc[i]) = "withRequiredArgs"
         /\ OnlyUserFields(i)
         /\ requiredArgsValue[i]._tag # "Fail") =>
            \E exit \in ProvideArgsExits :
                /\ exit._tag = "Success"
                /\ handlerArgs[i] = <<Spread(DecodedUserFields(i), exit.value)>>

(* C7: withRequiredArgs: when provideArgs() fails the invocation is        *)
(* rejected and the user handler is never called; the user handler is      *)
(* called only after provideArgs() has run and succeeded.                  *)
C7_InjectorFailureAborts ==
    \A i \in Invs :
        (Invoked(i) /\ Builder(desc[i]) = "withRequiredArgs") =>
            /\ requiredArgsValue[i]._tag = "Fail" =>
                 /\ Settled(i)
                 /\ promise[i].status = "rejected"
                 /\ handlerArgs[i] = <<>>
                 /\ "effect" \notin Range(trace[i])
            /\ handlerArgs[i] # <<>> =>
                 /\ requiredArgsValue[i]._tag = "Success"
                 /\ Len(handlerArgs[i]) = 1

C7_Witness ==
    \E i \in Invs :
        /\ Settled(i)
        /\ Builder(desc[i]) = "withRequiredArgs"
        /\ requiredArgsValue[i]._tag = "Fail"
        /\ promise[i].status = "rejected"

(* The handler's effect is running or has run.                             *)
HandlerDriven(i) == pc[i] \in {"inject", "effect", "encode"}

(* C9: in every invocation of a query descriptor the bundle offered to the *)
(* handler holds exactly the reader db, auth, the reader storage and       *)
(* runQuery: no scheduler, no writer, no runMutation, runAction or         *)
(* vectorSearch.                                                           *)
C9_QueryBundle ==
    \A i \in Invs :
        (Invoked(i) /\ Kind(desc[i]) = "query") =>
            /\ HandlerDriven(i) => bundle[i] # NoBundle
            /\ bundle[i] # NoBundle =>
                 /\ DOMAIN bundle[i] = {"db", "auth", "storage", "runQuery"}
                 /\ bundle[i].db.impl = "ConfectDatabaseReaderImpl"
                 /\ bundle[i].auth.impl = "ConfectAuthImpl"
                 /\ bundle[i].storage.impl = "ConfectStorageReaderImpl"
                 /\ bundle[i].runQuery.op = "runQuery"

C9_Witness ==
    \E i \in Invs :
        /\ pc[i] = "effect"
        /\ Kind(desc[i]) = "query"
        /\ "runQuery" \in DOMAIN bundle[i]

(* C10: in every invocation of a mutation descriptor the bundle holds the  *)
(* writer db, auth, the writer storage, the scheduler, runQuery and        *)
(* runMutation, and neither runAction nor vectorSearch.                    *)
C10_MutationBundle ==
    \A i \in Invs :
        (Invoked(i) /\ Kind(desc[i]) = "mutation") =>
            /\ HandlerDriven(i) => bundle[i] # NoBundle
            /\ bundle[i] # NoBundle =>
                 /\ DOMAIN bundle[i] =
                      {"db", "auth", "storage", "scheduler", "runQuery", "runMutation"}
                 /\ bundle[i].db.impl = "ConfectDatabaseWriterImpl"
                 /\ bundle[i].auth.impl = "ConfectAuthImpl"
                 /\ bundle[i].storage.impl = "ConfectStorageWriterImpl"
                 /\ bundle[i].scheduler.impl = "ConfectSchedulerImpl"
                 /\ bundle[i].runQuery.op = "runQuery"
                 /\ bundle[i].runMutation.op = "runMutation"

C10_Witness ==
    \E i \in Invs :
        /\ pc[i] = "effect"
        /\ Kind(desc[i]) = "mutation"
        /\ "runMutation" \in DOMAIN bundle[i]

(* C11: in every invocation of an action descriptor the bundle holds       *)
(* runQuery, runMutation, runAction, vectorSearch, auth, the writer        *)
(* storage and the scheduler, never db, and none of its services is built  *)
(* from the entity schema set.                                             *)
C11_ActionBundle ==
    \A i \in DOMAIN pc :
        (Invoked(i) /\ Kind(desc[i]) = "action") =>
            /\ HandlerDriven(i) => bundle[i] # NoBundle
            /\ bundle[i] # NoBundle =>
                 /\ DOMAIN bundle[i] =
                      {"runQuery", "runMutation", "runAction", "vectorSearch",
                       "auth", "storage", "scheduler"}
                 /\ "db" \notin DOMAIN bundle[i]
                 /\ \A s \in DOMAIN bundle[i] :
                        "databaseSchemas" \notin DOMAIN bundle[i][s]
                 /\ bundle[i].auth.impl = "ConfectAuthImpl"
                 /\ bundle[i].storage.impl = "ConfectStorageWriterImpl"
                 /\ bundle[i].scheduler.impl = "ConfectSchedulerImpl"
                 /\ \A op \in {"runQuery", "runMutation", "runAction", "vectorSearch"} :
                        bundle[i][op] = EffectPromise(rawCtx[i], op)

C11_Witness ==
    \E i \in DOMAIN pc :
        /\ pc[i] = "effect"
        /\ Kind(desc[i]) = "action"
        /\ "vectorSearch" \in DOMAIN bundle[i]

(* C12: with two or more invocations in flight, in any interleaving, the   *)
(* bundle in the context of an invocation's handler is the one built from  *)
(* that invocation's raw context, every service of it keeps that raw       *)
(* context, and every cross-invocation call the handler drives is made on  *)
(* that raw context: the operations invoked on the raw context of an       *)
(* invocation are exactly the ones its own handler drove.                  *)
C12_OwnBundle ==
    \A i \in DOMAIN pc :
        /\ bundle[i] # NoBundle =>
             /\ \A s \in DOMAIN bundle[i] : bundle[i][s].ctx = rawCtx[i].id
             /\ context[i].service = bundle[i]
        /\ call[i]._tag = "Call" => call[i].ctx = rawCtx[i].id
        /\ platformOps[i] = driven[i]

C12_Witness ==
    \E i, j \in DOMAIN pc :
        /\ i # j
        /\ desc[i] # desc[j]
        /\ call[i]._tag = "Call" /\ call[i].status = "pending"
        /\ call[j]._tag = "Call" /\ call[j].status = "pending"
        /\ platformOps[j] = 2

(* C13: when the raw arguments decode, the handler's effect succeeds and   *)
(* its value matches the returns schema, the promise resolves to           *)
(* encode(returns, h(decode(args, raw))): the handler was called once with *)
(* the decoded arguments and the promise holds its value, encoded.  For    *)
(* the echo query and raw arguments {message: "hi", count: 2} the result   *)
(* has response "Echo: hi" and repeated ["hi", "hi"].                      *)
C13_ResultIsEncodedHandlerValue ==
    \A i \in DOMAIN pc :
        (/\ Settled(i)
         /\ Builder(desc[i]) = "build"
         /\ handlerExit[i]._tag = "Success"
         /\ Parses(ReturnsOf(desc[i]), handlerExit[i].value)) =>
            /\ handlerArgs[i] = <<[f \in DOMAIN ArgsSchema(desc[i]) |-> actualArgs[i][f]]>>
            /\ promise[i].status = "resolved"
            /\ promise[i].value =
                 [f \in DOMAIN ReturnsOf(desc[i]) |-> handlerExit[i].value[f]]
            /\ (desc[i] = "echo" /\ actualArgs[i].message = Str("hi")
                                /\ actualArgs[i].count = Num(2)) =>
                 /\ promise[i].value.response = Str("Echo: hi")
                 /\ promise[i].value.repeated = Arr(<<Str("hi"), Str("hi")>>)
                 /\ DOMAIN promise[i].value = {"response", "timestamp", "repeated"}

C13_Witness ==
    \E i \in DOMAIN pc :
        /\ Settled(i)
        /\ desc[i] = "echo"
        /\ actualArgs[i] = [message |-> Str("hi"), count |-> Num(2)]
        /\ promise[i].status = "resolved"
        /\ promise[i].value.repeated = Arr(<<Str("hi"), Str("hi")>>)

(* The cross-invocation call of invocation i was rejected by the platform:  *)
(* the called function failed.                                             *)
CalleeFailed(i) == call[i]._tag = "Call" /\ call[i].status = "rejected"

(* C14 as stated: a failure of a function called through runQuery,         *)
(* runMutation or runAction arrives in the caller's effect as a typed      *)
(* failure (Cause.Fail).                                                   *)
C14_CalleeFailureIsTyped ==
    \A i \in DOMAIN pc :
        CalleeFailed(i) => call[i].exit._tag = "Fail"

(* C14, amended: a failure of a function called through runQuery,          *)
(* runMutation or runAction arrives in the caller's effect as a defect     *)
(* (Cause.Die) that carries the rejection, never as a typed failure; a     *)
(* handler that ends with it has its own promise rejected as a defect.     *)
C14_CalleeFailureIsDefect ==
    \A i \in DOMAIN pc :
        CalleeFailed(i) =>
            /\ call[i].exit._tag = "Die"
            /\ call[i].exit.defect \in
                 {x.reason : x \in {y \in PlatformSettlements : y.status = "rejected"}}
            /\ (Settled(i) /\ handlerExit[i] = call[i].exit) => RejectedWith(i, "Die")

C14_Witness ==
    \E i \in DOMAIN pc :
        /\ CalleeFailed(i)
        /\ call[i].op = "runMutation"
        /\ Settled(i)
        /\ handlerExit[i] = call[i].exit
        /\ promise[i].status = "rejected"

(* The stages of an invocation of function fn, in the order of the pipe.   *)
StageOrder(fn) ==
    CASE Builder(fn) = "build" ->
           <<"decode", "call", "bundle", "effect", "encode">>
      [] Builder(fn) = "withRequiredArgs" ->
           <<"decode", "call", "bundle", "provideArgs", "effect", "encode">>
      [] Builder(fn) = "withCurrentUser" ->
           <<"decode", "call", "bundle", "getUserIdentity", "effect", "encode">>

IsPrefix(a, b) == Len(a) <= Len(b) /\ \A k \in 1..Len(a) : a[k] = b[k]

(* The stages run so far are in pipeline order, each once; the bundle is   *)
(* built only when decode succeeded, encode runs only when the handler's   *)
(* effect succeeded.                                                       *)
StagesInOrder(i) ==
    /\ IsPrefix(trace[i], StageOrder(desc[i]))
    /\ "bundle" \in Range(trace[i]) =>
         /\ Parses(ArgsSchema(desc[i]), actualArgs[i])
         /\ bundle[i] # NoBundle
    /\ "encode" \in Range(trace[i]) => handlerExit[i]._tag = "Success"
    /\ (Settled(i) /\ promise[i].status = "rejected") =>
         \/ trace[i] = <<"decode">>
         \/ handlerExit[i]._tag \in {"Fail", "Die"}
         \/ trace[i][Len(trace[i])] = "encode"

(* C15 as stated: the stages run in order, each at most once, and the user *)
(* handler is first called only after the bundle has been built.           *)
C15_HandlerCalledAfterBundle ==
    \A i \in DOMAIN pc :
        Invoked(i) =>
            /\ StagesInOrder(i)
            /\ handlerArgs[i] # <<>> => bundle[i] # NoBundle

(* C15, amended: the stages run in order, each at most once and none again *)
(* after a failure; the effect the handler returns is run only after the   *)
(* bundle has been built, while the function given as handler is called,   *)
(* with the decoded arguments, before the bundle is built.                 *)
C15_EffectRunsAfterBundle ==
    \A i \in DOMAIN pc :
        Invoked(i) =>
            /\ StagesInOrder(i)
            /\ pc[i] \in {"inject", "effect", "await", "encode"} => bundle[i] # NoBundle
            /\ (requiredArgsValue[i] # NoExit \/ userIdentity[i] # NotAsked
                    \/ handlerExit[i] # NoExit \/ driven[i] > 0) =>
                 "bundle" \in Range(trace[i])
            /\ "bundle" \in Range(trace[i]) => "call" \in Range(trace[i])
            /\ (handlerArgs[i] # <<>> /\ Builder(desc[i]) = "build") =>
                 handlerArgs[i] = <<decodedArgs[i]>>

C15_Witness ==
    \E i \in DOMAIN pc :
        /\ pc[i] = "provide"
        /\ Builder(desc[i]) = "build"
        /\ handlerArgs[i] # <<>>
        /\ bundle[i] = NoBundle

(* C16: building the bundle of a query, a mutation or an action invokes no *)
(* platform operation: when the bundle has just been built no operation    *)
(* has been invoked on the raw context, at any time the operations invoked *)
(* are as many as the deferred effects the handler's effect has driven,    *)
(* and an invocation whose handler drives none makes none.                 *)
C16_NoPlatformCallOnBuild ==
    \A i \in DOMAIN pc :
        /\ bundle[i] # NoBundle =>
             /\ StartedOnBuild(bundle[i]) = {}
             /\ \A op \in CallableOps(bundle[i]) : bundle[i][op].impl = "Effect.promise"
        /\ driven[i] = 0 => platformOps[i] = 0
        /\ platformOps[i] = driven[i]
        /\ driven[i] > 0 =>
             /\ "bundle" \in Range(trace[i])
             /\ call[i].seq = driven[i]

C16_Witness ==
    \E i \in DOMAIN pc :
        /\ Settled(i)
        /\ Kind(desc[i]) = "action"
        /\ bundle[i] # NoBundle
        /\ promise[i].status = "resolved"
        /\ driven[i] = 0
        /\ platformOps[i] = 0

(* C17: when a handler's effect drives cross-invocation calls one after    *)
(* another, a call is started only when the platform promise of the one    *)
(* before it has settled; the n-th call the handler issues is the n-th     *)
(* operation the platform sees on the raw context, and the result the      *)
(* handler receives is the one of the call it issued last.                 *)
C17_CallsInIssuingOrder ==
    [][\A i \in DOMAIN pc :
          /\ driven'[i] = driven[i] + 1 =>
               /\ call[i]._tag = "Call" => call[i].status # "pending"
               /\ call'[i].seq = driven'[i]
               /\ call'[i].platformSeq = call'[i].seq
               /\ call'[i].status = "pending"
          /\ (pc[i] = "await" /\ pc'[i] # "await") =>
               /\ call[i].status = "pending"
               /\ call'[i].status # "pending"
               /\ call'[i].seq = driven[i]]_vars

C17_Witness ==
    \E i \in DOMAIN pc :
        /\ pc[i] = "effect"
        /\ driven[i] = 2
        /\ call[i].seq = 2
        /\ call[i].platformSeq = 2
        /\ call[i].op = "runMutation"
        /\ call[i].status = "resolved"

(* The bundle a lookup with the tag of (kind, dataModel) returns inside    *)
(* invocation i.                                                           *)
Lookup(i, kind, dataModel) == ContextGet(context[i], registry.tags[dataModel][kind])

(* C18 as stated: the tags of two different data models, or of two         *)
(* different kinds, never have the same key.                               *)
C18_KeyPerKindAndDataModel ==
    registry # NotLoaded =>
        \A d1 \in DataModels, d2 \in DataModels, k1 \in Kinds, k2 \in Kinds :
            (d1 # d2 \/ k1 # k2) => registry.tags[d1][k1] # registry.tags[d2][k2]

(* C18, amended: the key is determined by the kind alone.  The tags of two *)
(* kinds never have the same key, the tags of one kind have the same key   *)
(* in every data model; a bundle is provided only to the effect of its own *)
(* invocation, so a lookup inside an invocation returns, for the tag of    *)
(* the invocation's kind in any data model, the bundle built for that      *)
(* invocation's kind and data model, and nothing for the tag of another    *)
(* kind.                                                                   *)
C18_KeyPerKind ==
    registry # NotLoaded =>
        /\ \A d1 \in DataModels, d2 \in DataModels, k1 \in Kinds, k2 \in Kinds :
              (registry.tags[d1][k1] = registry.tags[d2][k2]) <=> (k1 = k2)
        /\ \A i \in DOMAIN pc :
              bundle[i] # NoBundle =>
                 /\ \A d \in DataModels :
                       /\ Lookup(i, Kind(desc[i]), d) = bundle[i]
                       /\ \A k \in Kinds \ {Kind(desc[i])} : Lookup(i, k, d) = NoBundle
                 /\ bundle[i] = ProvidedBundle(Kind(desc[i]), rawCtx[i],
                                               DatabaseSchemasOf(DataModelOf(desc[i])))

C18_Witness ==
    \E i \in DOMAIN pc :
        /\ pc[i] = "effect"
        /\ DataModelOf(desc[i]) = "B"
        /\ Lookup(i, "query", "A") = bundle[i]
        /\ bundle[i].db.databaseSchemas = DatabaseSchemasOf("B")

(* The descriptors are built: every function has its descriptor {args,     *)
(* returns, handler}, the validators compiled from its schemas, each       *)
(* compiled once.                                                          *)
DescriptorsBuilt ==
    /\ DOMAIN registry.descriptors = Functions
    /\ \A fn \in Functions :
          /\ DOMAIN registry.descriptors[fn] = {"args", "returns", "handler"}
          /\ DOMAIN registry.descriptors[fn].args.fields = DOMAIN ArgsSchema(fn)
          /\ DOMAIN registry.descriptors[fn].returns.fields = DOMAIN ReturnsOf(fn)
          /\ registry.compiles[fn] = [args |-> 1, returns |-> 1]
    /\ registry.descriptors["mutation"].args =
         [validator |-> "object", fields |-> [text |-> "string"]]

(* C19: the validators of a descriptor are compiled once, when the         *)
(* descriptor is built, and building calls no user handler; after that no  *)
(* step of any invocation changes the descriptors, the number of           *)
(* compilations or the entity schema set.                                  *)
C19_CompiledOnceAtBuild ==
    /\ [](registry # NotLoaded => DescriptorsBuilt)
    /\ [][/\ registry # NotLoaded => registry' = registry
          /\ (registry = NotLoaded /\ registry' # NotLoaded) =>
                \A i \in DOMAIN pc : handlerArgs'[i] = <<>> /\ pc'[i] = "idle"]_vars

C19_Witness ==
    \E i \in DOMAIN pc :
        /\ Settled(i)
        /\ desc[i] = "mutation"
        /\ promise[i].status = "resolved"
        /\ handlerArgs[i] # <<>>
        /\ registry.compiles[desc[i]] = [args |-> 1, returns |-> 1]
        /\ registry.databaseSchemas["A"] = DatabaseSchemas

(* The three outcomes of an invocation: resolved with the handler's value, *)
(* encoded; rejected with the typed failure of the handler's effect;       *)
(* rejected as a defect.                                                   *)
ResolvedEncoded(i) ==
    /\ promise[i].status = "resolved"
    /\ handlerExit[i]._tag = "Success"
    /\ promise[i].value = [f \in DOMAIN ReturnsOf(desc[i]) |-> handlerExit[i].value[f]]

RejectedTyped(i) ==
    /\ RejectedWith(i, "Fail")
    /\ handlerExit[i]._tag = "Fail"
    /\ promise[i].error.cause.error = handlerExit[i].error

RejectedDefect(i) == RejectedWith(i, "Die")

(* C20: when the platform settles every operation, an invocation's promise *)
(* does not stay pending; it settles once, and a settled invocation is in  *)
(* one of the three outcomes.                                              *)
C20_SettlesOnceInThreeOutcomes ==
    /\ \A i \in Invs :
          (promise[i].status = "pending") ~> (promise[i].status \in {"resolved", "rejected"})
    /\ [](\A i \in Invs :
            /\ Settled(i) <=> promise[i].status \in {"resolved", "rejected"}
            /\ Settled(i) => (ResolvedEncoded(i) \/ RejectedTyped(i) \/ RejectedDefect(i)))
    /\ [][\A i \in Invs :
            promise[i].status \in {"resolved", "rejected"} =>
                (promise'[i] = promise[i] \/ promise'[i] = NoPromise)]_vars

(* The user-declared fields of the raw arguments of invocation i.          *)
ClientUserFields(i) == [f \in DOMAIN UserArgs(desc[i]) |-> actualArgs[i][f]]

(* C21: withCurrentUser (query and mutation): whenever the user handler is *)
(* called, it is called once, with the decoded user fields and a           *)
(* currentUserId equal to the subject the auth capability returned in that *)
(* invocation, whatever currentUserId the raw arguments hold; two          *)
(* invocations of one function with the same identity and the same user    *)
(* fields that call the handler give it the same input.                    *)
C21_IdentityNotSpoofable ==
    \A i \in DOMAIN pc :
        (Invoked(i) /\ Builder(desc[i]) = "withCurrentUser" /\ handlerArgs[i] # <<>>) =>
            /\ Len(handlerArgs[i]) = 1
            /\ userIdentity[i] = rawCtx[i].identity
            /\ handlerArgs[i][1] =
                 [f \in (DOMAIN UserArgs(desc[i])) \cup {"currentUserId"} |->
                     IF f = "currentUserId"
                     THEN Str(userIdentity[i].value.subject)
                     ELSE actualArgs[i][f]]
            /\ \A j \in DOMAIN pc :
                  (/\ desc[j] = desc[i]
                   /\ handlerArgs[j] # <<>>
                   /\ rawCtx[j].identity = rawCtx[i].identity
                   /\ ClientUserFields(j) = ClientUserFields(i)) =>
                      handlerArgs[j] = handlerArgs[i]

C21_Witness ==
    \E i, j \in DOMAIN pc :
        /\ i # j
        /\ desc[i] = "currentUserMutation" /\ desc[j] = "currentUserMutation"
        /\ rawCtx[i].identity = Some([subject |-> "42"])
        /\ rawCtx[j].identity = Some([subject |-> "42"])
        /\ actualArgs[i].currentUserId = Str("7")
        /\ actualArgs[j].currentUserId = Str("42")
        /\ handlerArgs[i] # <<>>
        /\ handlerArgs[j] = handlerArgs[i]
        /\ handlerArgs[i][1].currentUserId = Str("42")

====
